---- MODULE Spec2Model ----
(***************************************************************************)
(* Model of import_csv_to_json/src/App.js: the change listener of the file *)
(* selector, the papa_results completion callback, and json_restructure    *)
(* with its helpers.                                                       *)
(*                                                                         *)
(* JavaScript strings that the code cuts, trims or concatenates are        *)
(* sequences of one-character strings.  Strings the code only compares or  *)
(* uses as a property key (the Response Type) are TLA+ strings.            *)
(* A row is a function from column names to cells; a column that Papa      *)
(* Parse did not deliver for a row is missing from the row's DOMAIN, and   *)
(* reading it yields JavaScript's undefined.                               *)
(***************************************************************************)
EXTENDS Integers, Sequences, FiniteSets, TLC

VARIABLES files, changed, pending, alerts, console, json_out, results

vars == <<files, changed, pending, alerts, console, json_out, results>>

----------------------------------------------------------------------------
(* Bounds of the model.                                                    *)

MaxRows == 3
MaxFiles == 3
MaxLen == 3

----------------------------------------------------------------------------
(* JavaScript values and completions.                                      *)

Undefined == [t |-> "undefined"]
Str(s) == [t |-> "string", v |-> s]
Inherited(name) == [t |-> "inherited", v |-> name]

Return(v) == [threw |-> FALSE, value |-> v]
Throw(e) == [threw |-> TRUE, error |-> e]

\* The TypeError the engine raises for  undefined.<property>(...) .  Its
\* message is fixed by the engine; quotes is the set of input strings the
\* message cites, which for this error is empty.
TypeError(property) ==
    [name |-> "TypeError", property |-> property, quotes |-> {}]

----------------------------------------------------------------------------
(* String.prototype.trim, split, replace and concatenation.                *)

IsWhitespace(c) == c \in {" ", "\t", "\n", "\r"}

RECURSIVE TrimStart(_)
TrimStart(s) ==
    IF Len(s) > 0 /\ IsWhitespace(Head(s)) THEN TrimStart(Tail(s)) ELSE s

RECURSIVE TrimEnd(_)
TrimEnd(s) ==
    IF Len(s) > 0 /\ IsWhitespace(s[Len(s)])
    THEN TrimEnd(SubSeq(s, 1, Len(s) - 1))
    ELSE s

trim(s) == TrimEnd(TrimStart(s))

\* Index of the first occurrence of character c in s, 0 when there is none.
IndexOf(s, c) ==
    IF \E k \in 1..Len(s) : s[k] = c
    THEN CHOOSE k \in 1..Len(s) : s[k] = c /\ \A m \in 1..(k - 1) : s[m] # c
    ELSE 0

\* s.split(c) for a one-character separator: every occurrence cuts, and a
\* string without the separator (the empty string too) gives one segment.
RECURSIVE split(_, _)
split(s, c) ==
    LET k == IndexOf(s, c)
    IN  IF k = 0
        THEN <<s>>
        ELSE <<SubSeq(s, 1, k - 1)>> \o split(SubSeq(s, k + 1, Len(s)), c)

\* s.replace(/ /g, '_')
ReplaceSpaces(s) == [k \in 1..Len(s) |-> IF s[k] = " " THEN "_" ELSE s[k]]

\* s.replace(/.csv/g, '_csv'): the dot is unescaped, so it stands for any
\* character but a line terminator; matches are taken left to right.
RECURSIVE ReplaceDotCsv(_)
ReplaceDotCsv(s) ==
    IF Len(s) = 0 THEN <<>>
    ELSE IF /\ Len(s) >= 4
            /\ s[1] \notin {"\n", "\r"}
            /\ SubSeq(s, 2, 4) = <<"c", "s", "v">>
         THEN <<"_", "c", "s", "v">> \o ReplaceDotCsv(SubSeq(s, 5, Len(s)))
         ELSE <<Head(s)>> \o ReplaceDotCsv(Tail(s))

\* encodeURIComponent on the characters of the model's alphabet.
EscapeChar(c) ==
    CASE c = " "  -> <<"%", "2", "0">>
      [] c = "\n" -> <<"%", "0", "A">>
      [] c = "\t" -> <<"%", "0", "9">>
      [] c = "\r" -> <<"%", "0", "D">>
      [] c = "="  -> <<"%", "3", "D">>
      [] c = ","  -> <<"%", "2", "C">>
      [] c = ":"  -> <<"%", "3", "A">>
      [] OTHER    -> <<c>>

RECURSIVE encodeURIComponent(_)
encodeURIComponent(s) ==
    IF Len(s) = 0 THEN <<>>
    ELSE EscapeChar(Head(s)) \o encodeURIComponent(Tail(s))

DotJson == <<".", "j", "s", "o", "n">>

----------------------------------------------------------------------------
(* question_types and the property lookup  question_types[key] .           *)

question_types ==
    [k \in {"Single Choice", "Image", "Multiple Choice", "Text Entry"} |->
        CASE k = "Single Choice"   -> "single_sel"
          [] k = "Image"           -> "image_sel"
          [] k = "Multiple Choice" -> "multi_sel"
          [] k = "Text Entry"      -> "text"]

\* question_types is an object literal, so a key it does not own is looked
\* up in Object.prototype before the lookup gives undefined.
ObjectPrototypeKeys ==
    {"constructor", "toString", "toLocaleString", "valueOf", "hasOwnProperty",
     "isPrototypeOf", "propertyIsEnumerable", "__proto__",
     "__defineGetter__", "__defineSetter__",
     "__lookupGetter__", "__lookupSetter__"}

Lookup(table, key) ==
    IF key \in DOMAIN table THEN Str(table[key])
    ELSE IF key \in ObjectPrototypeKeys THEN Inherited(key)
    ELSE Undefined

----------------------------------------------------------------------------
(* Rows.                                                                   *)

Has(row, column) == column \in DOMAIN row

\* var questionnaire_title = Name === Abbreviation ? Name : Abbreviation + " (" + Name + ")"
questionnaire_title(row) ==
    IF row["Questionnaire Name"] = row["Questionnaire Abbreviation"]
    THEN row["Questionnaire Name"]
    ELSE row["Questionnaire Abbreviation"] \o <<" ", "(">>
            \o row["Questionnaire Name"] \o <<")">>

\* questionnaire_exists as it behaves when find is called without the
\* title as its second argument: this is undefined and equals no title.
questionnaire_exists_unbound(this, questionnaire) ==
    Undefined = Str(questionnaire["title"])

\* The test of Array.prototype.find, with this bound to the title looked for.
questionnaire_exists(this, questionnaire) == this = questionnaire["title"]

\* dbs_json.find(questionnaire_exists, title): the index of the first
\* questionnaire that passes the test, 0 when find returns undefined.
Find(dbs_json, title) ==
    IF \E k \in 1..Len(dbs_json) : questionnaire_exists(title, dbs_json[k])
    THEN CHOOSE k \in 1..Len(dbs_json) :
            /\ questionnaire_exists(title, dbs_json[k])
            /\ \A m \in 1..(k - 1) : ~questionnaire_exists(title, dbs_json[m])
    ELSE 0

\* questions_responses without the test: the rows field is always written.
questions_responses_always_rows(test, question_title, types, row, response_json) ==
    [title |-> question_title,
     type |-> Lookup(types, row["Response Type"]),
     rows |-> response_json,
     variable_name |-> row["Question Abbreviation"]]

\* The object questions_responses returns; test is responses.length, which
\* is truthy when it is not 0.
questions_responses(test, question_title, types, row, response_json) ==
    IF test # 0
    THEN [title |-> question_title,
          type |-> Lookup(types, row["Response Type"]),
          rows |-> response_json,
          variable_name |-> row["Question Abbreviation"]]
    ELSE [title |-> question_title,
          type |-> Lookup(types, row["Response Type"]),
          variable_name |-> row["Question Abbreviation"]]

----------------------------------------------------------------------------
(* The body of json_restructure.                                           *)

\* responses = cell.split("\n"); if (responses.length < 2) responses = cell.split(",")
responses_of(cell) ==
    LET by_line == split(cell, "\n")
    IN  IF Len(by_line) < 2 THEN split(cell, ",") ELSE by_line

\* One pass of the inner loop: response_value = responses[j].split("="),
\* then the literal {text: response_value[1].trim(), value: response_value[0].trim()}.
\* response_value[1] is undefined when the segment holds no "=".
option_of(segment) ==
    LET response_value == split(segment, "=")
    IN  IF Len(response_value) < 2
        THEN Throw(TypeError("trim"))
        ELSE Return([text |-> trim(response_value[2]),
                     value |-> trim(response_value[1])])

\* for (var j=0; j<responses.length; j++) response_json.push(...)
RECURSIVE push_responses(_, _, _)
push_responses(responses, j, response_json) ==
    IF j > Len(responses)
    THEN Return(response_json)
    ELSE LET option == option_of(responses[j])
         IN  IF option.threw
             THEN option
             ELSE push_responses(responses, j + 1,
                                 Append(response_json, option.value))

\* var question_title = Question.trim(), prefixed with the trimmed Question
\* Group Instruction and ": " when that is not empty.
question_title_of(row) ==
    IF Len(trim(row["Question Group Instruction"])) > 0
    THEN trim(row["Question Group Instruction"]) \o <<":", " ">>
            \o trim(row["Question"])
    ELSE trim(row["Question"])

\* The questionnaire pushed for a title that find did not return.
new_questionnaire(title, question) ==
    [activity_type |-> "survey",
     mode |-> "basic",
     frequency |-> "1",
     title |-> title,
     questions |-> <<question>>]

\* add_question with unshift in place of push.
add_question_unshift(dbs_json, title, question) ==
    LET existing_questionnaire == Find(dbs_json, title)
    IN  IF existing_questionnaire # 0
        THEN [dbs_json EXCEPT ![existing_questionnaire].questions =
                                    <<question>> \o @]
        ELSE <<new_questionnaire(title, question)>> \o dbs_json

\* existing_questionnaire ? existing_questionnaire["questions"].push(q) : dbs_json.push({...})
add_question(dbs_json, title, question) ==
    LET existing_questionnaire == Find(dbs_json, title)
    IN  IF existing_questionnaire # 0
        THEN [dbs_json EXCEPT ![existing_questionnaire].questions =
                                    Append(@, question)]
        ELSE Append(dbs_json, new_questionnaire(title, question))

\* One iteration of the outer loop on row file_json_array[i].  dbs_json and
\* response_json are vars of the function: response_json keeps the value
\* of the previous iteration when this row is a "Text Entry" row, and
\* responses starts again from [] in every iteration.
iteration(dbs_json, response_json, row) ==
    LET title == questionnaire_title(row)
        parses == row["Response Type"] # "Text Entry"
    IN  IF parses /\ ~Has(row, "Response Options")
        THEN Throw(TypeError("split"))
        ELSE
        LET responses ==
                IF parses THEN responses_of(row["Response Options"]) ELSE <<>>
            pushed ==
                IF parses THEN push_responses(responses, 1, <<>>)
                ELSE Return(response_json)
        IN  IF pushed.threw
            THEN pushed
            ELSE IF ~Has(row, "Question Group Instruction")
            THEN Throw(TypeError("trim"))
            ELSE Return(
                [dbs_json |->
                    add_question(dbs_json, title,
                        questions_responses(Len(responses),
                            question_title_of(row), question_types, row,
                            pushed.value)),
                 response_json |-> pushed.value])

RECURSIVE restructure_from(_, _, _, _)
restructure_from(file_json_array, i, dbs_json, response_json) ==
    IF i > Len(file_json_array)
    THEN Return(dbs_json)
    ELSE LET done == iteration(dbs_json, response_json, file_json_array[i])
         IN  IF done.threw
             THEN done
             ELSE restructure_from(file_json_array, i + 1,
                                   done.value.dbs_json,
                                   done.value.response_json)

\* var dbs_json = []; response_json is declared by a hoisted var and is
\* undefined until a row that parses options assigns it.
json_restructure(file_json_array) ==
    restructure_from(file_json_array, 1, <<>>, Undefined)

----------------------------------------------------------------------------
(* The download links and the file-extension test.                         *)

\* json_link(object): the <li><a> of one questionnaire.  href stands for the
\* data URI, which carries the JSON text of the object.
json_link(object) ==
    [text |-> object.title,
     href |-> object,
     download |-> encodeURIComponent(ReplaceSpaces(object.title)) \o DotJson,
     bold |-> FALSE]

\* The last <li> of the list: the link to the whole array of the file.
file_link(object, file) ==
    LET object_name == ReplaceDotCsv(file.name) \o DotJson
    IN  [text |-> object_name,
         href |-> object,
         download |-> encodeURIComponent(object_name),
         bold |-> TRUE]

\* re = /(?:\.([^.]+))?$/ ; re.exec(name)[1] is what follows the last dot,
\* undefined when the name has no dot or ends with one.
ext_of(name) ==
    LET dots == {k \in 1..Len(name) : name[k] = "."}
        last == CHOOSE k \in dots : \A m \in dots : m <= k
    IN  IF dots = {} \/ last = Len(name)
        THEN Undefined
        ELSE Str(SubSeq(name, last + 1, Len(name)))

accepted(file) == ext_of(file.name) = Str(<<"c", "s", "v">>)

\* file_of as it would be if the callbacks read the loop's var file after
\* the loop has ended: every pass sees the last file.
file_of_last(selection, i) == selection[Len(selection)]

\* var file = files[i]: the file handed to Papa.parse in pass i of the loop,
\* which Papa hands back to the complete callback with its rows.
file_of(selection, i) == selection[i]

----------------------------------------------------------------------------
(* The inputs: the files a user selects.                                   *)

sA == <<"a">>
sB == <<"b">>
sAB == <<"a", " ", "(", "b", ")">>
sCsv == <<"a", ".", "c", "s", "v">>
Digits == <<"1", "2", "3", "4", "5", "6", "7", "8", "9">>

\* The cells every row has; the Question Abbreviation tells the rows of a
\* file apart by their position.
BaseRow(name, abbreviation, question, type, position) ==
    [column \in {"Questionnaire Name", "Questionnaire Abbreviation",
                 "Question", "Question Abbreviation", "Response Type"} |->
        CASE column = "Questionnaire Name"         -> name
          [] column = "Questionnaire Abbreviation" -> abbreviation
          [] column = "Question"                   -> question
          [] column = "Question Abbreviation"      -> <<"v", Digits[position]>>
          [] column = "Response Type"              -> type]

\* cells is {} for a column the row lacks, {cell} otherwise.
WithCell(row, column, cells) ==
    IF cells = {} THEN row
    ELSE row @@ (column :> (CHOOSE cell \in cells : TRUE))

Row(name, abbreviation, instruction, question, type, options, position) ==
    WithCell(
        WithCell(BaseRow(name, abbreviation, question, type, position),
                 "Question Group Instruction", instruction),
        "Response Options", options)

\* (Questionnaire Name, Questionnaire Abbreviation): the second and the
\* third give the same computed title "a (b)".
TitlePairs == {<<sA, sA>>, <<sB, sA>>, <<sAB, sAB>>}

\* (Response Type, Response Options) of the rows of the grouping family.
GroupKinds ==
    {<<"Single Choice", {<<"1", "=", "a", "\n", "2", "=", "b">>}>>,
     <<"Text Entry", {<<"1">>}>>,
     <<"Image", {<<>>}>>}

GroupData ==
    UNION {
        {[i \in 1..n |->
            Row(pick[i][1][1], pick[i][1][2], {<<>>}, <<"q">>,
                pick[i][2][1], pick[i][2][2], i)] :
         pick \in [1..n -> TitlePairs \X GroupKinds]} :
        n \in 0..MaxRows}

\* Every Response Options cell of at most MaxLen characters, and the
\* cells of the worked examples.
OptionAlphabet == {"1", "a", "=", ",", "\n", " "}

OptionCells ==
    UNION {[1..n -> OptionAlphabet] : n \in 0..MaxLen}
    \cup {<<"1", "=", "a", "=", "b">>,
          <<"1", "=", "a", ",", " ", "2", "=", "b">>,
          <<"1", "=", "a", "\n", "2", "=", "b", "\n">>,
          <<"1", "=", "a", ",", "b", "\n", "2", "=", "b">>}

ResponseTypes ==
    {"Single Choice", "Image", "Multiple Choice", "Text Entry",
     "Likert", "constructor"}

Instructions == {{}, {<<>>}, {<<" ">>}, {<<"g">>}, {<<" ", "g", "\n">>}}

Questions == {<<"q">>, <<" ", "q", " ">>}

CellData ==
    {<<Row(sA, sA, {<<>>}, <<"q">>, type, {cell}, 1)>> :
        type \in {"Single Choice", "Text Entry"}, cell \in OptionCells}
    \cup
    {<<Row(sB, sA, instruction, question, type, options, 1)>> :
        instruction \in Instructions, question \in Questions,
        type \in ResponseTypes,
        options \in {{}, {<<>>}, {<<"1", "=", "a">>}}}

File(name, data) == [name |-> name, data |-> data]

\* The files of the several-files family: accepted and rejected names, and
\* rows that restructure and rows that throw.
SomeNames == {sCsv, <<"b", ".", "t", "x", "t">>, <<"c", ".">>}

SomeData ==
    {<<Row(sA, sA, {<<>>}, <<"q">>, "Single Choice", {<<"1", "=", "a">>}, 1)>>,
     <<Row(sB, sA, {<<"g">>}, <<"q">>, "Multiple Choice",
           {<<"1", "=", "a", ",", "2", "=", "b">>}, 1),
       Row(sA, sA, {<<>>}, <<"q">>, "Text Entry", {}, 2)>>,
     <<Row(sB, sB, {<<>>}, <<"q">>, "Single Choice", {<<"1">>}, 1)>>}

SomeFiles ==
    {File(sCsv, data) : data \in SomeData}
    \cup {File(name, data) :
            name \in SomeNames \ {sCsv},
            data \in {<<Row(sA, sA, {<<>>}, <<"q">>, "Text Entry", {}, 1)>>}}

Selections ==
    {<<File(sCsv, data)>> : data \in GroupData \cup CellData}
    \cup UNION {[1..n -> SomeFiles] : n \in 0..MaxFiles}

----------------------------------------------------------------------------
(* The state machine.                                                      *)

\* After the page has loaded: the listener is registered and the user has
\* files at hand to select; nothing has been parsed or shown.
Init ==
    /\ files \in Selections
    /\ changed = FALSE
    /\ pending = {}
    /\ alerts = <<>>
    /\ console = <<>>
    /\ json_out = <<>>
    /\ results = <<>>

\* The alerts of the listener's loop from pass i on.
RECURSIVE alerts_from(_, _)
alerts_from(selection, i) ==
    IF i > Len(selection) THEN <<>>
    ELSE (IF accepted(file_of(selection, i)) THEN <<>>
          ELSE <<ext_of(file_of(selection, i).name)>>)
         \o alerts_from(selection, i + 1)

\* The "change" listener: one pass per selected file, logging the
\* extension, then alert or Papa.parse, whose completion comes later.
change ==
    /\ ~changed
    /\ changed' = TRUE
    /\ console' = console \o
            [i \in 1..Len(files) |->
                [log |-> "Ext: ", arg |-> ext_of(file_of(files, i).name)]]
    /\ alerts' = alerts \o alerts_from(files, 1)
    /\ pending' = {i \in 1..Len(files) : accepted(file_of(files, i))}
    /\ UNCHANGED <<files, json_out, results>>

\* Papa's complete callback for the file handed over in pass i.  When
\* json_restructure throws, nothing after it runs.
papa_results(i) ==
    LET file == file_of(files, i)
        done == json_restructure(file.data)
    IN  /\ i \in pending
        /\ pending' = pending \ {i}
        /\ results' = results @@ (i :> done)
        /\ IF done.threw
           THEN UNCHANGED <<console, json_out>>
           ELSE LET object == done.value
                IN  /\ console' = console \o
                        <<[log |-> "object", arg |-> object],
                          [log |-> " questionnaires extracted from ",
                           arg |-> <<Len(object), file.name>>]>>
                    /\ json_out' = Append(json_out,
                            [k \in 1..(Len(object) + 1) |->
                                IF k <= Len(object)
                                THEN json_link(object[k])
                                ELSE file_link(object, file)])
        /\ UNCHANGED <<files, changed, alerts>>

Next ==
    \/ change
    \/ \E i \in 1..Len(files) : papa_results(i)

Spec == Init /\ [][Next]_vars

----------------------------------------------------------------------------
(* What the claims speak of.                                               *)

Rows(i) == files[i].data

Returned(i) == i \in DOMAIN results /\ ~results[i].threw

Threw(i) == i \in DOMAIN results /\ results[i].threw

\* The computed title as the data model states it.
ComputedTitle(row) ==
    IF row["Questionnaire Name"] = row["Questionnaire Abbreviation"]
    THEN row["Questionnaire Name"]
    ELSE row["Questionnaire Abbreviation"] \o <<" ", "(">>
            \o row["Questionnaire Name"] \o <<")">>

\* The distinct computed titles of rows, in the order of first appearance.
RECURSIVE FirstAppearance(_, _, _)
FirstAppearance(rows, i, seen) ==
    IF i > Len(rows) THEN seen
    ELSE FirstAppearance(rows, i + 1,
            IF \E k \in 1..Len(seen) : seen[k] = ComputedTitle(rows[i])
            THEN seen
            ELSE Append(seen, ComputedTitle(rows[i])))

\* The Question Abbreviations of the rows of the given computed title, in
\* row order.
RECURSIVE NamesOfTitle(_, _, _)
NamesOfTitle(rows, i, title) ==
    IF i > Len(rows) THEN <<>>
    ELSE (IF ComputedTitle(rows[i]) = title
          THEN <<rows[i]["Question Abbreviation"]>>
          ELSE <<>>)
         \o NamesOfTitle(rows, i + 1, title)

TitlesOf(out) == [k \in 1..Len(out) |-> out[k].title]

VariableNamesOf(questionnaire) ==
    [q \in 1..Len(questionnaire.questions) |->
        questionnaire.questions[q].variable_name]

\* The questions of an output that were made from the given row.
QuestionsOfRow(out, row) ==
    UNION {
        {out[k].questions[q] :
            q \in {n \in 1..Len(out[k].questions) :
                    out[k].questions[n].variable_name
                        = row["Question Abbreviation"]}} :
        k \in 1..Len(out)}

IsText(row) == row["Response Type"] = "Text Entry"

HasEquals(segment) == \E k \in 1..Len(segment) : segment[k] = "="

\* The segments of a Response Options cell: cut at newlines, or at commas
\* when the newline cut gives fewer than 2 pieces.
Segments(cell) ==
    IF Len(split(cell, "\n")) < 2 THEN split(cell, ",") ELSE split(cell, "\n")

\* The Option of a segment that holds "=": cut at the first "=" only.
OptionAtFirstEquals(segment) ==
    LET k == CHOOSE k \in 1..Len(segment) :
                segment[k] = "=" /\ \A m \in 1..(k - 1) : segment[m] # "="
    IN  [value |-> trim(SubSeq(segment, 1, k - 1)),
         text |-> trim(SubSeq(segment, k + 1, Len(segment)))]

RECURSIVE OptionsOfNonEmpty(_, _)
OptionsOfNonEmpty(segments, j) ==
    IF j > Len(segments) THEN <<>>
    ELSE (IF Len(segments[j]) = 0 THEN <<>>
          ELSE <<OptionAtFirstEquals(segments[j])>>)
         \o OptionsOfNonEmpty(segments, j + 1)

\* The rows of a file with the Response Options cell of every "Text Entry"
\* row taken away.
WithoutTextOptions(rows) ==
    [r \in 1..Len(rows) |->
        IF IsText(rows[r])
        THEN [column \in DOMAIN rows[r] \ {"Response Options"} |->
                rows[r][column]]
        ELSE rows[r]]

----------------------------------------------------------------------------
(* C1: whenever json_restructure returns, no two questionnaires of the     *)
(* returned list have the same title, and the list has as many             *)
(* questionnaires as the input rows have distinct computed titles.         *)
C1_TitlesUnique ==
    \A i \in DOMAIN results :
        ~results[i].threw =>
            LET out == results[i].value
            IN  /\ \A k, m \in 1..Len(out) :
                        out[k].title = out[m].title => k = m
                /\ Len(out) =
                    Cardinality({ComputedTitle(Rows(i)[r]) :
                                    r \in 1..Len(Rows(i))})

\* Two rows with different names and the same computed title were merged,
\* next to a questionnaire of another title.
C1_Witness ==
    \E i \in DOMAIN results :
        /\ ~results[i].threw
        /\ Len(results[i].value) = 2
        /\ \E r, s \in 1..Len(Rows(i)) :
            /\ Rows(i)[r]["Questionnaire Name"]
                    # Rows(i)[s]["Questionnaire Name"]
            /\ ComputedTitle(Rows(i)[r]) = ComputedTitle(Rows(i)[s])

(* C2: whenever json_restructure returns, the questionnaires come in the   *)
(* order in which their computed titles first appear in the input, and the *)
(* questions of each are the rows of that title, one question per row, in  *)
(* row order.                                                              *)
C2_OrderPreserved ==
    \A i \in DOMAIN results :
        ~results[i].threw =>
            LET out == results[i].value
            IN  /\ TitlesOf(out) = FirstAppearance(Rows(i), 1, <<>>)
                /\ \A k \in 1..Len(out) :
                        VariableNamesOf(out[k])
                            = NamesOfTitle(Rows(i), 1, out[k].title)

\* Rows of two questionnaires were interleaved: the first and the third row
\* went to one questionnaire, the second to another.
C2_Witness ==
    \E i \in DOMAIN results :
        /\ ~results[i].threw
        /\ Len(Rows(i)) = 3
        /\ ComputedTitle(Rows(i)[1]) = ComputedTitle(Rows(i)[3])
        /\ ComputedTitle(Rows(i)[1]) # ComputedTitle(Rows(i)[2])
        /\ Len(results[i].value) = 2
        /\ Len(results[i].value[1].questions) = 2

(* C3: a "Text Entry" row gives a Question without a rows field, and its   *)
(* Response Options cell is never read: the outcome of the call is the     *)
(* outcome for the same rows without those cells, whatever rows precede.   *)
C3_TextEntryNoRows ==
    \A i \in DOMAIN results :
        /\ results[i] = json_restructure(WithoutTextOptions(Rows(i)))
        /\ ~results[i].threw =>
            \A r \in 1..Len(Rows(i)) :
                IsText(Rows(i)[r]) =>
                    /\ QuestionsOfRow(results[i].value, Rows(i)[r]) # {}
                    /\ \A question \in
                            QuestionsOfRow(results[i].value, Rows(i)[r]) :
                        "rows" \notin DOMAIN question

\* A "Text Entry" row whose cell holds a segment without "=" came after a
\* row that produced options, and the call returned.
C3_Witness ==
    \E i \in DOMAIN results :
        /\ ~results[i].threw
        /\ \E r, s \in 1..Len(Rows(i)) :
            /\ r < s
            /\ ~IsText(Rows(i)[r])
            /\ \E question \in QuestionsOfRow(results[i].value, Rows(i)[r]) :
                    "rows" \in DOMAIN question
            /\ IsText(Rows(i)[s])
            /\ Has(Rows(i)[s], "Response Options")
            /\ ~HasEquals(Rows(i)[s]["Response Options"])

(* C10: with several files selected in one change event and the           *)
(* callbacks firing in any order, what is produced for a file is what      *)
(* restructuring that file's rows alone produces; each list shown belongs  *)
(* to one file that returned; a file that threw or was rejected shows      *)
(* nothing and changes no other file's output.                             *)
C10_FilesIndependent ==
    /\ \A i \in DOMAIN results :
        /\ accepted(files[i])
        /\ results[i] = json_restructure(Rows(i))
    /\ Len(json_out) = Cardinality({i \in DOMAIN results : ~results[i].threw})
    /\ \A u \in 1..Len(json_out) :
        \E i \in DOMAIN results :
            /\ ~results[i].threw
            /\ Len(json_out[u]) = Len(results[i].value) + 1
            /\ \A k \in 1..Len(results[i].value) :
                /\ json_out[u][k].text = results[i].value[k].title
                /\ json_out[u][k].href = results[i].value[k]
            /\ json_out[u][Len(json_out[u])].href = results[i].value
            /\ json_out[u][Len(json_out[u])].text
                    = ReplaceDotCsv(files[i].name) \o DotJson

\* Three files were selected; two returned different lists, the later
\* file's callback first, and a third one threw.
C10_Witness ==
    /\ Len(files) = 3
    /\ Len(json_out) = 2
    /\ \E i, j, k \in DOMAIN results :
        /\ i < j
        /\ ~results[i].threw /\ ~results[j].threw /\ results[k].threw
        /\ results[i].value # results[j].value
        /\ json_out[1][Len(json_out[1])].href = results[j].value
        /\ json_out[2][Len(json_out[2])].href = results[i].value

----------------------------------------------------------------------------
(* Claims the code does not meet.                                          *)

\* Parsing the options of the row cannot fail: the row is a "Text Entry"
\* row, or it has a cell whose every segment holds "=".
OptionsParse(row) ==
    \/ IsText(row)
    \/ /\ Has(row, "Response Options")
       /\ \A j \in 1..Len(Segments(row["Response Options"])) :
            HasEquals(Segments(row["Response Options"])[j])

HasInstruction(row) == Has(row, "Question Group Instruction")

EmptyOptions(row) ==
    ~IsText(row) /\ Has(row, "Response Options")
        /\ row["Response Options"] = <<>>

(* C4: a row that is not "Text Entry" and whose Response Options is empty  *)
(* raises no error and gives a Question without a rows field, and the      *)
(* rows after it are processed.                                            *)
C4_EmptyOptionsPassThrough ==
    \A i \in DOMAIN results :
        (\A r \in 1..Len(Rows(i)) :
            /\ HasInstruction(Rows(i)[r])
            /\ OptionsParse(Rows(i)[r]) \/ EmptyOptions(Rows(i)[r]))
        => /\ ~results[i].threw
           /\ \A r \in 1..Len(Rows(i)) :
                /\ QuestionsOfRow(results[i].value, Rows(i)[r]) # {}
                /\ EmptyOptions(Rows(i)[r]) =>
                    \A question \in
                            QuestionsOfRow(results[i].value, Rows(i)[r]) :
                        "rows" \notin DOMAIN question

\* The non-empty segments without "=" of the rows that are not "Text Entry".
MalformedSegments(rows) ==
    UNION {
        IF IsText(rows[r]) \/ ~Has(rows[r], "Response Options")
        THEN {}
        ELSE {Segments(rows[r]["Response Options"])[j] :
                j \in {n \in 1..Len(Segments(rows[r]["Response Options"])) :
                    /\ Len(Segments(rows[r]["Response Options"])[n]) > 0
                    /\ ~HasEquals(Segments(rows[r]["Response Options"])[n])}} :
        r \in 1..Len(rows)}

(* C5: when a row that is not "Text Entry", at any position, has a segment *)
(* without "=", json_restructure raises a malformed-input error that names *)
(* the segment, and nothing is returned or shown for the file.             *)
C5_MalformedSegmentNamed ==
    \A i \in DOMAIN results :
        MalformedSegments(Rows(i)) # {} =>
            /\ results[i].threw
            /\ results[i].error.quotes \cap MalformedSegments(Rows(i)) # {}
            /\ \A u \in 1..Len(json_out) :
                json_out[u][Len(json_out[u])].text
                    # ReplaceDotCsv(files[i].name) \o DotJson

\* The questions of the row have the options of the non-empty segments of
\* its cell, each cut at its first "=".
RowsCutAtFirstEquals(out, row) ==
    \A question \in QuestionsOfRow(out, row) :
        /\ "rows" \in DOMAIN question
        /\ question.rows =
            OptionsOfNonEmpty(Segments(row["Response Options"]), 1)

(* C6: for a segment with at least one "=", the Option's value is the      *)
(* trimmed text before the first "=" and its text the trimmed text of all  *)
(* that follows the first "=", further "=" included.                       *)
C6_CutAtFirstEquals ==
    \A i \in DOMAIN results :
        ~results[i].threw =>
            \A r \in 1..Len(Rows(i)) :
                ~IsText(Rows(i)[r]) /\ OptionsParse(Rows(i)[r])
                    => RowsCutAtFirstEquals(results[i].value, Rows(i)[r])

\* The cell is not empty and each of its non-empty segments holds "=".
NonEmptySegmentsParse(row) ==
    /\ ~IsText(row)
    /\ Has(row, "Response Options")
    /\ Len(row["Response Options"]) > 0
    /\ \A j \in 1..Len(Segments(row["Response Options"])) :
        \/ Len(Segments(row["Response Options"])[j]) = 0
        \/ Len(split(Segments(row["Response Options"])[j], "=")) = 2

(* C7: a non-empty cell of a row that is not "Text Entry" is cut at        *)
(* newlines, at commas only when the newline cut gives fewer than 2        *)
(* pieces, and rows holds one Option per non-empty segment in segment      *)
(* order; an empty segment gives neither an Option nor an error.           *)
C7_EmptySegmentsSkipped ==
    \A i \in DOMAIN results :
        (\A r \in 1..Len(Rows(i)) :
            /\ HasInstruction(Rows(i)[r])
            /\ IsText(Rows(i)[r]) \/ NonEmptySegmentsParse(Rows(i)[r]))
        => /\ ~results[i].threw
           /\ \A r \in 1..Len(Rows(i)) :
                ~IsText(Rows(i)[r]) =>
                    /\ QuestionsOfRow(results[i].value, Rows(i)[r]) # {}
                    /\ RowsCutAtFirstEquals(results[i].value, Rows(i)[r])

\* The Question title as the data model states it.
ExpectedQuestionTitle(row) ==
    IF HasInstruction(row) /\ trim(row["Question Group Instruction"]) # <<>>
    THEN trim(row["Question Group Instruction"]) \o <<":", " ">>
            \o trim(row["Question"])
    ELSE trim(row["Question"])

(* C8: the Question title is the trimmed Question, prefixed with the       *)
(* trimmed Question Group Instruction and ": " exactly when that is not    *)
(* empty after trimming; an absent, empty or blank instruction gives no    *)
(* prefix and no error.                                                    *)
C8_QuestionTitle ==
    \A i \in DOMAIN results :
        (\A r \in 1..Len(Rows(i)) : OptionsParse(Rows(i)[r]))
        => /\ ~results[i].threw
           /\ \A r \in 1..Len(Rows(i)) :
                /\ QuestionsOfRow(results[i].value, Rows(i)[r]) # {}
                /\ \A question \in
                        QuestionsOfRow(results[i].value, Rows(i)[r]) :
                    question.title = ExpectedQuestionTitle(Rows(i)[r])

\* The Type Mapper as its contract states it.
ExpectedType(type) ==
    CASE type = "Single Choice"   -> Str("single_sel")
      [] type = "Image"           -> Str("image_sel")
      [] type = "Multiple Choice" -> Str("multi_sel")
      [] type = "Text Entry"      -> Str("text")
      [] OTHER                    -> Undefined

(* C9: the Type Mapper gives single_sel, image_sel, multi_sel and text for *)
(* the four labels and undefined for every other key, and a row with such  *)
(* a Response Type still gives a Question, whose type is undefined.        *)
C9_TypeMapper ==
    \A i \in DOMAIN results :
        ~results[i].threw =>
            \A r \in 1..Len(Rows(i)) :
                /\ QuestionsOfRow(results[i].value, Rows(i)[r]) # {}
                /\ \A question \in
                        QuestionsOfRow(results[i].value, Rows(i)[r]) :
                    question.type = ExpectedType(Rows(i)[r]["Response Type"])

====
